---- MODULE Spec2Model ----
(***************************************************************************)
(* Melody retrieval: contour encoding (backend/main.py, backend/ingest.py), *)
(* corpus ingestion, and the two search endpoints.                          *)
(*                                                                          *)
(* Strings are sequences of one-character strings.  Pitches are integers    *)
(* in tenths of a semitone, so the MIDI note 60 is 600 and the audio-       *)
(* derived pitch 60.2 is 602; the 0.5-semitone threshold is 5.              *)
(***************************************************************************)
EXTENDS Integers, Sequences, FiniteSets, TLC

VARIABLES
    \* ---- contour functions (notes_to_contour, midi_to_contour, audio loop)
    kind,             \* which function the call is of: "notes", "midi", "audio"
    pc,               \* "call", "loop" (inside the frame loop), "returned"
    notesArg,         \* argument of notes_to_contour
    mid,              \* mido.MidiFile(...).tracks: a sequence of tracks
    pitches,          \* per-frame dominant pitch (0: pitch <= 0, no pitch)
    t,                \* frame index of the loop of audio_to_contour
    notes,            \* the local list `notes`
    melody_track,     \* index in mid of the selected track (0: none)
    ret,              \* the returned contour, or None
    \* ---- corpus and the sequential endpoints
    collection_compositions,   \* the documents, in natural order
    response,                  \* the last response of an endpoint
    \* ---- concurrent search_by_audio calls
    fs,               \* temp_audio/: file name -> contents, or NoFile
    at,               \* per worker: position in search_by_audio
    req,              \* per worker: the upload (filename, contents)
    fd,               \* per worker: the file the open buffer writes to
    contour,          \* per worker: the local `contour`
    resp              \* per worker: the response, once returned

contourVars == <<kind, pc, notesArg, mid, pitches, t, notes, melody_track, ret>>
searchVars == <<collection_compositions, response>>
audioVars == <<fs, at, req, fd, contour, resp>>
vars == <<contourVars, searchVars, audioVars>>

\* ---------------------------------------------------------------- bounds
Threshold == 5
Semitone == 2 * Threshold
MaxNotes == 4
MaxTracks == 2
MaxTrackLen == 2
MaxFrames == 4

\* Python's None, as a contour: differs from "" (<<>>) and from "*".
None == <<"None">>

Abs(x) == IF x < 0 THEN -x ELSE x
Min(a, b) == IF a < b THEN a ELSE b

SeqsUpTo(S, n) == UNION {[1..k -> S] : k \in 0..n}

\* ------------------------------------------------------ notes_to_contour
RECURSIVE notes_loop(_, _, _)
notes_loop(ns, i, acc) ==
    IF i > Len(ns) THEN acc
    ELSE notes_loop(ns, i + 1,
                    Append(acc, IF ns[i] > ns[i - 1] THEN "U"
                                ELSE IF ns[i] < ns[i - 1] THEN "D"
                                ELSE "R"))

notes_loop_swapped(ns) ==
    [i \in 1..Len(ns) |->
        IF i = 1 THEN "*"
        ELSE IF ns[i] > ns[i - 1] THEN "D"
        ELSE IF ns[i] < ns[i - 1] THEN "U" ELSE "R"]

notes_to_contour_swapped(ns) ==
    IF Len(ns) < 2 THEN None ELSE notes_loop_swapped(ns)

notes_to_contour_short(ns) ==
    IF Len(ns) < 1 THEN None ELSE notes_loop(ns, 2, <<"*">>)

notes_to_contour(ns) ==
    IF Len(ns) < 2 THEN None ELSE notes_loop(ns, 2, <<"*">>)

\* ------------------------------------------------------- midi_to_contour
note_on(n, v) == [type |-> "note_on", note |-> n, velocity |-> v]
note_off(n) == [type |-> "note_off", note |-> n, velocity |-> 0]

\* len([msg for msg in t if msg.type == 'note_on'])
note_on_count(track) == Len(SelectSeq(track, LAMBDA msg : msg.type = "note_on"))

RECURSIVE max_track_last(_, _, _)
max_track_last(tracks, i, best) ==
    IF i > Len(tracks) THEN best
    ELSE max_track_last(tracks, i + 1,
                        IF note_on_count(tracks[i]) >= note_on_count(tracks[best])
                        THEN i ELSE best)

\* max(mid.tracks, key=...): the first track whose key no later one exceeds;
\* returns its index (called with at least one track).
RECURSIVE max_track(_, _, _)
max_track(tracks, i, best) ==
    IF i > Len(tracks) THEN best
    ELSE max_track(tracks, i + 1,
                   IF note_on_count(tracks[i]) > note_on_count(tracks[best])
                   THEN i ELSE best)

\* for msg in melody_track: if note_on and velocity > 0: notes.append(msg.note)
RECURSIVE track_notes(_, _, _)
track_notes(track, i, acc) ==
    IF i > Len(track) THEN acc
    ELSE track_notes(track, i + 1,
                     IF track[i].type = "note_on" /\ track[i].velocity > 0
                     THEN Append(acc, track[i].note) ELSE acc)

\* the inline encoding of midi_to_contour
RECURSIVE midi_loop(_, _, _)
midi_loop(ns, i, acc) ==
    IF i > Len(ns) THEN acc
    ELSE midi_loop(ns, i + 1,
                   Append(acc, IF ns[i] > ns[i - 1] THEN "U"
                               ELSE IF ns[i] < ns[i - 1] THEN "D"
                               ELSE "R"))

midi_contour(ns) == IF Len(ns) < 2 THEN None ELSE midi_loop(ns, 2, <<"*">>)

\* midi_to_contour as a function of the tracks: max() of no track raises
\* ValueError, which the except clause turns into None.
midi_to_contour(tracks) ==
    IF Len(tracks) = 0 THEN None
    ELSE midi_contour(track_notes(tracks[max_track(tracks, 1, 1)], 1, <<>>))

\* ------------------------------------------------ audio_to_contour, loop
\* One iteration of the frame loop: the new `notes`.
segment_step_all(ns, midi_note) ==
    IF midi_note > 0 THEN Append(ns, midi_note) ELSE ns

segment_step_ge(ns, midi_note) ==
    IF midi_note > 0
    THEN IF ns = <<>> \/ Abs(midi_note - ns[Len(ns)]) >= Threshold
         THEN Append(ns, midi_note) ELSE ns
    ELSE ns

segment_step(ns, midi_note) ==
    IF midi_note > 0
    THEN IF ns = <<>> \/ Abs(midi_note - ns[Len(ns)]) > Threshold
         THEN Append(ns, midi_note) ELSE ns
    ELSE ns

RECURSIVE segment(_, _, _)
segment(frames, i, ns) ==
    IF i > Len(frames) THEN ns
    ELSE segment(frames, i + 1, segment_step(ns, frames[i]))

\* ------------------------------------------------------------ re.escape
\* the characters Python's re.escape puts a backslash before
SpecialChars ==
    {"(", ")", "[", "]", "{", "}", "?", "*", "+", "-", "|", "^", "$", "\\",
     ".", "&", "~", "#", " ", "\t", "\n", "\r", "\f"}

re_escape_none(s) == s

RECURSIVE re_escape(_)
re_escape(s) ==
    IF s = <<>> THEN <<>>
    ELSE (IF Head(s) \in SpecialChars THEN <<"\\", Head(s)>> ELSE <<Head(s)>>)
         \o re_escape(Tail(s))

\* ------------------------------------- {"$regex": ..., "$options": "i"}
\* The pattern language of the store, as far as the query alphabet reaches:
\* a backslash makes the next character literal, '.' is any character, '*'
\* repeats the item before it, any other character is literal.  A pattern
\* that does not compile makes find() raise.
Literal(c) == [ch |-> c, any |-> FALSE, star |-> FALSE]
AnyChar == [ch |-> ".", any |-> TRUE, star |-> FALSE]
NoPattern == [ok |-> FALSE, items |-> <<>>]

RECURSIVE regex_compile(_, _)
regex_compile(pat, items) ==
    IF pat = <<>> THEN [ok |-> TRUE, items |-> items]
    ELSE IF Head(pat) = "\\"
         THEN IF Len(pat) < 2 \/ pat[2] \notin SpecialChars THEN NoPattern
              ELSE regex_compile(Tail(Tail(pat)), Append(items, Literal(pat[2])))
    ELSE IF Head(pat) = "*"
         THEN IF items = <<>> \/ items[Len(items)].star THEN NoPattern
              ELSE regex_compile(Tail(pat),
                                 [items EXCEPT ![Len(items)].star = TRUE])
    ELSE IF Head(pat) = "."
         THEN regex_compile(Tail(pat), Append(items, AnyChar))
    ELSE regex_compile(Tail(pat), Append(items, Literal(Head(pat))))

\* option i: letters match in either case
fold_case(c) ==
    CASE c = "U" -> "u" [] c = "D" -> "d" [] c = "R" -> "r" [] c = "Z" -> "z"
      [] OTHER -> c

item_matches(item, c) == item.any \/ fold_case(item.ch) = fold_case(c)

RECURSIVE match_here(_, _, _, _)
match_here(items, i, text, j) ==
    IF i > Len(items) THEN TRUE
    ELSE IF items[i].star
         THEN \/ match_here(items, i + 1, text, j)
              \/ /\ j <= Len(text)
                 /\ item_matches(items[i], text[j])
                 /\ match_here(items, i, text, j + 1)
    ELSE /\ j <= Len(text)
         /\ item_matches(items[i], text[j])
         /\ match_here(items, i + 1, text, j + 1)

regex_search_prefix(items, text) == match_here(items, 1, text, 1)

\* unanchored: the pattern may match at any position of the text
regex_search(items, text) ==
    \E j \in 1..(Len(text) + 1) : match_here(items, 1, text, j)

\* collection.find({"melodic_contour": {"$regex": pat, "$options": "i"}})
\* .limit(n): the first n matching documents in natural order
find_limit(coll, pat, n) ==
    LET compiled == regex_compile(pat, <<>>)
        hits == SelectSeq(coll, LAMBDA doc :
                    regex_search(compiled.items, doc.melodic_contour))
    IN  SubSeq(hits, 1, Min(n, Len(hits)))

serialize_doc(doc) == [doc EXCEPT !._id = ToString(doc._id)]

serialize_all(docs) == [k \in 1..Len(docs) |-> serialize_doc(docs[k])]

ParsonsLimit == 20
AudioLimit == 10

Raised(e) == [endpoint |-> e, status |-> "raised"]

\* search_by_parsons(query): the response
search_by_parsons(query, coll) ==
    LET escaped_query == re_escape(query)
    IN  IF ~regex_compile(escaped_query, <<>>).ok THEN Raised("parsons")
        ELSE [endpoint |-> "parsons", status |-> "ok", query |-> query,
              results |-> serialize_all(find_limit(coll, escaped_query, ParsonsLimit))]

\* ------------------------------------------------------ uploaded files
\* File contents, as far as the code looks at them: the size, whether
\* librosa.load decodes them, and the per-frame pitches piptrack and
\* hz_to_midi then give.  NoFile: the path does not exist.
NoFile == [size |-> -1, decodes |-> FALSE, frames |-> <<>>]
EmptyBytes == [size |-> 0, decodes |-> FALSE, frames |-> <<>>]
Corrupt == [size |-> 1, decodes |-> FALSE, frames |-> <<>>]
Audio(frames) == [size |-> 1 + Len(frames), decodes |-> TRUE, frames |-> frames]

\* audio_to_contour(file_path), given what the path holds at each look
audio_to_contour(file) ==
    IF file = NoFile THEN None
    ELSE IF file.size = 0 THEN None
    ELSE IF ~file.decodes THEN None
    ELSE notes_to_contour(segment(file.frames, 1, <<>>))

\* open(file_path, "wb") fails when the upload's filename names a directory
\* below temp_audio, which os.makedirs(temp_dir) does not create
CanOpen(filename) == filename \notin {"sub/a.wav"}

\* `not contour`
Falsy(c) == c = None \/ c = <<>>

NoMelody == [endpoint |-> "audio", status |-> "ok",
             generated_contour |-> None, results |-> <<>>]

\* the tail of search_by_audio, from `if not contour`
audio_response(c, coll) ==
    IF Falsy(c) THEN NoMelody
    ELSE [endpoint |-> "audio", status |-> "ok", generated_contour |-> c,
          results |-> serialize_all(find_limit(coll, re_escape(c), AudioLimit))]

\* search_by_audio run with no other call in between: the file written
\* holds the upload when audio_to_contour reads it, and is removed after
search_by_audio(filename, contents, coll) ==
    IF ~CanOpen(filename) THEN Raised("audio")
    ELSE audio_response(audio_to_contour(contents), coll)

\* ------------------------------------------------------ populate_database
ScoreUUD ==
    << <<note_on(60, 64), note_off(60), note_on(62, 64), note_on(64, 64),
         note_on(64, 0), note_on(62, 64)>>,
       <<note_on(48, 64), note_off(48)>> >>
ScoreDDU ==
    << <<note_on(48, 64), note_on(48, 0)>>,
       <<note_on(64, 64), note_on(62, 64), note_on(60, 64), note_on(62, 64)>> >>
ScoreShort == << <<note_on(60, 64), note_off(60)>> >>

\* a directory of SOURCE_DIR: whether it holds a .ly/.mid pair, whether
\* resolve_composer_only finds the composer, and the tracks of the .mid
Dir(pair, composer, tracks) == [pair |-> pair, composer |-> composer, tracks |-> tracks]
DirUUD == Dir(TRUE, TRUE, ScoreUUD)
SourceDirs ==
    {DirUUD, Dir(TRUE, TRUE, ScoreDDU), Dir(TRUE, TRUE, ScoreShort),
     Dir(TRUE, FALSE, ScoreUUD), Dir(FALSE, TRUE, ScoreDDU)}

MaxCorpus == 22
MaxVaried == 3
MaxQuery == 2
QueryChars == {"*", "U", "D", "d", ".", "Z"}
Filenames == {"a.wav", "b.wav", "sub/a.wav"}
Uploads ==
    {EmptyBytes, Corrupt, Audio(<<600, 603>>), Audio(<<600, 0, 640>>),
     Audio(<<640, 603, 600>>), Audio(<<600, 640, 600>>)}

NoResponse == [endpoint |-> "none", status |-> "none"]

\* insert_one(document): the store gives the document an _id no other
\* document present has
insert_one(coll, c) ==
    Append(coll, [_id |-> Len(coll) + 1, melodic_contour |-> c])

\* collection_compositions.delete_many({})
PopulateClear ==
    /\ response = NoResponse
    /\ collection_compositions' = <<>>
    /\ UNCHANGED <<response, contourVars, audioVars>>

\* one directory of the walk: skipped, or insert_one(document)
PopulateDir(d) ==
    /\ response = NoResponse
    /\ Len(collection_compositions) < MaxCorpus
    /\ Len(collection_compositions) < MaxVaried \/ d = DirUUD
    /\ LET c == midi_to_contour(d.tracks)
       IN  IF d.pair /\ d.composer /\ ~Falsy(c)
           THEN collection_compositions' = insert_one(collection_compositions, c)
           ELSE UNCHANGED collection_compositions
    /\ UNCHANGED <<response, contourVars, audioVars>>

SearchByParsons(query) ==
    /\ response = NoResponse
    /\ response' = search_by_parsons(query, collection_compositions)
    /\ UNCHANGED <<collection_compositions, contourVars, audioVars>>

SearchByAudio(filename, contents) ==
    /\ response = NoResponse
    /\ response' = search_by_audio(filename, contents, collection_compositions)
    /\ UNCHANGED <<collection_compositions, contourVars, audioVars>>

\* the handler's return reaches the client
Return ==
    /\ response # NoResponse
    /\ response' = NoResponse
    /\ UNCHANGED <<collection_compositions, contourVars, audioVars>>

\* ------------------------------------------- the contour functions, run
NotePitches == {600, 602, 620, 630, 640}
Events == {note_on(60, 64), note_on(62, 64), note_on(64, 0), note_off(60)}
Tracks == SeqsUpTo(Events, MaxTrackLen)
FramePitches == {0, 600, 603, 605, 606}
ScenarioA == <<600, 620, 640, 630>>
ScenarioC == <<600, 602, 640, 639, 638>>

Workers == {1, 2}
NoRequest == [filename |-> "", contents |-> NoFile]
TempNames == {n \in Filenames : CanOpen(n)}

SearchIdle ==
    /\ collection_compositions = <<>>
    /\ response = NoResponse

AudioIdle ==
    /\ fs = [n \in TempNames |-> NoFile]
    /\ at = [w \in Workers |-> "off"]
    /\ req = [w \in Workers |-> NoRequest]
    /\ fd = [w \in Workers |-> ""]
    /\ contour = [w \in Workers |-> None]
    /\ resp = [w \in Workers |-> NoResponse]

ContourIdle ==
    /\ kind = "none" /\ pc = "returned"
    /\ notesArg = <<>> /\ mid = <<>> /\ pitches = <<>>
    /\ t = 0 /\ notes = <<>> /\ melody_track = 0 /\ ret = None

InitContour ==
    /\ SearchIdle /\ AudioIdle
    /\ pc = "call" /\ t = 0 /\ notes = <<>> /\ melody_track = 0 /\ ret = None
    /\ \/ /\ kind = "notes"
          /\ notesArg \in SeqsUpTo(NotePitches, MaxNotes)
          /\ mid = <<>> /\ pitches = <<>>
       \/ /\ kind = "midi"
          /\ mid \in SeqsUpTo(Tracks, MaxTracks)
          /\ notesArg = <<>> /\ pitches = <<>>
       \/ /\ kind = "audio"
          /\ pitches \in SeqsUpTo(FramePitches, MaxFrames) \cup {ScenarioC}
          /\ notesArg = <<>> /\ mid = <<>>

\* notes_to_contour(notes), main.py
CallNotesToContour ==
    /\ kind = "notes" /\ pc = "call"
    /\ ret' = notes_to_contour(notesArg)
    /\ pc' = "returned"
    /\ UNCHANGED <<kind, notesArg, mid, pitches, t, notes, melody_track>>
    /\ UNCHANGED <<searchVars, audioVars>>

\* midi_to_contour, ingest.py, on the tracks of the file
CallMidiToContour ==
    /\ kind = "midi" /\ pc = "call"
    /\ IF Len(mid) = 0
       THEN /\ ret' = None
            /\ UNCHANGED <<melody_track, notes>>
       ELSE /\ melody_track' = max_track(mid, 1, 1)
            /\ notes' = track_notes(mid[melody_track'], 1, <<>>)
            /\ ret' = midi_contour(notes')
    /\ pc' = "returned"
    /\ UNCHANGED <<kind, notesArg, mid, pitches, t>>
    /\ UNCHANGED <<searchVars, audioVars>>

\* one iteration of `for t in range(pitches.shape[1])`
FrameStep ==
    /\ kind = "audio" /\ pc \in {"call", "loop"}
    /\ t < Len(pitches)
    /\ t' = t + 1
    /\ notes' = segment_step(notes, pitches[t + 1])
    /\ pc' = "loop"
    /\ UNCHANGED <<kind, notesArg, mid, pitches, melody_track, ret>>
    /\ UNCHANGED <<searchVars, audioVars>>

\* `return notes_to_contour(notes)` after the loop
AudioReturn ==
    /\ kind = "audio" /\ pc \in {"call", "loop"}
    /\ t = Len(pitches)
    /\ ret' = notes_to_contour(notes)
    /\ pc' = "returned"
    /\ UNCHANGED <<kind, notesArg, mid, pitches, t, notes, melody_track>>
    /\ UNCHANGED <<searchVars, audioVars>>

NextContour ==
    \/ CallNotesToContour
    \/ CallMidiToContour
    \/ FrameStep
    \/ AudioReturn

SpecContour == InitContour /\ [][NextContour]_vars

\* ------------------------------------- search_by_audio, calls interleaved
\* Each worker process runs search_by_audio; the steps are the code's
\* accesses to temp_audio and to the corpus.
Name(w) == req[w].filename

PathExists(n) == n \in DOMAIN fs /\ fs[n] # NoFile

\* the corpus the calls read: two ingested documents
InitAudio ==
    /\ ContourIdle
    /\ collection_compositions =
          insert_one(insert_one(<<>>, midi_to_contour(ScoreUUD)),
                     midi_to_contour(ScoreDDU))
    /\ response = NoResponse
    /\ AudioIdle

\* the request arrives: os.makedirs(temp_dir), contents = await file.read()
Receive(w, filename, contents) ==
    /\ at[w] \in {"off", "returned", "raised"}
    /\ req' = [req EXCEPT ![w] = [filename |-> filename, contents |-> contents]]
    /\ contour' = [contour EXCEPT ![w] = None]
    /\ resp' = [resp EXCEPT ![w] = NoResponse]
    /\ at' = [at EXCEPT ![w] = "open"]
    /\ UNCHANGED <<fs, fd, contourVars, searchVars>>

\* open(file_path, "wb"): creates the file or truncates the one there
Open(w) ==
    /\ at[w] = "open"
    /\ IF CanOpen(Name(w))
       THEN /\ fs' = [fs EXCEPT ![Name(w)] = EmptyBytes]
            /\ fd' = [fd EXCEPT ![w] = Name(w)]
            /\ at' = [at EXCEPT ![w] = "write"]
       ELSE /\ at' = [at EXCEPT ![w] = "finally_exc"]
            /\ UNCHANGED <<fs, fd>>
    /\ UNCHANGED <<req, contour, resp, contourVars, searchVars>>

\* buffer.write(contents) and the close at the end of `with`: the bytes go
\* to the file opened, from offset 0, also when the path was removed since
written(old, contents) ==
    IF contents.size = 0 THEN old
    ELSE [contents EXCEPT !.size = IF old.size > contents.size
                                   THEN old.size ELSE contents.size]

Write(w) ==
    /\ at[w] = "write"
    /\ IF fd[w] = Name(w)
       THEN fs' = [fs EXCEPT ![Name(w)] = written(fs[Name(w)], req[w].contents)]
       ELSE UNCHANGED fs
    /\ fd' = [fd EXCEPT ![w] = ""]
    /\ at' = [at EXCEPT ![w] = "exists"]
    /\ UNCHANGED <<req, contour, resp, contourVars, searchVars>>

\* audio_to_contour: os.path.exists(file_path)
Exists(w) ==
    /\ at[w] = "exists"
    /\ IF PathExists(Name(w))
       THEN at' = [at EXCEPT ![w] = "getsize"]
       ELSE at' = [at EXCEPT ![w] = "finally"]
    /\ UNCHANGED <<fs, fd, req, contour, resp, contourVars, searchVars>>

\* audio_to_contour: os.path.getsize(file_path) and the emptiness test
GetSize(w) ==
    /\ at[w] = "getsize"
    /\ IF PathExists(Name(w)) /\ fs[Name(w)].size # 0
       THEN at' = [at EXCEPT ![w] = "load"]
       ELSE at' = [at EXCEPT ![w] = "finally"]
    /\ UNCHANGED <<fs, fd, req, contour, resp, contourVars, searchVars>>

\* audio_to_contour: librosa.load, piptrack, the frame loop, the encoding
Load(w) ==
    /\ at[w] = "load"
    /\ contour' = [contour EXCEPT ![w] = audio_to_contour(fs[Name(w)])]
    /\ at' = [at EXCEPT ![w] = "finally"]
    /\ UNCHANGED <<fs, fd, req, resp, contourVars, searchVars>>

\* finally: os.path.exists(file_path)
FinallyExists(w) ==
    /\ at[w] \in {"finally", "finally_exc"}
    /\ IF PathExists(Name(w))
       THEN /\ at' = [at EXCEPT ![w] = IF at[w] = "finally" THEN "remove"
                                       ELSE "remove_exc"]
            /\ UNCHANGED resp
       ELSE IF at[w] = "finally"
       THEN /\ at' = [at EXCEPT ![w] = "query"]
            /\ UNCHANGED resp
       ELSE /\ at' = [at EXCEPT ![w] = "raised"]
            /\ resp' = [resp EXCEPT ![w] = Raised("audio")]
    /\ UNCHANGED <<fs, fd, req, contour, contourVars, searchVars>>

\* finally: os.remove(file_path); raises when the path is gone
Remove(w) ==
    /\ at[w] \in {"remove", "remove_exc"}
    /\ IF PathExists(Name(w))
       THEN /\ fs' = [fs EXCEPT ![Name(w)] = NoFile]
            /\ fd' = [v \in Workers |-> IF fd[v] = Name(w) THEN "orphan" ELSE fd[v]]
            /\ IF at[w] = "remove"
               THEN /\ at' = [at EXCEPT ![w] = "query"]
                    /\ UNCHANGED resp
               ELSE /\ at' = [at EXCEPT ![w] = "raised"]
                    /\ resp' = [resp EXCEPT ![w] = Raised("audio")]
       ELSE /\ at' = [at EXCEPT ![w] = "raised"]
            /\ resp' = [resp EXCEPT ![w] = Raised("audio")]
            /\ UNCHANGED <<fs, fd>>
    /\ UNCHANGED <<req, contour, contourVars, searchVars>>

\* from `if not contour` to the return
Query(w) ==
    /\ at[w] = "query"
    /\ resp' = [resp EXCEPT ![w] = audio_response(contour[w], collection_compositions)]
    /\ at' = [at EXCEPT ![w] = "returned"]
    /\ UNCHANGED <<fs, fd, req, contour, contourVars, searchVars>>

NextAudio ==
    \E w \in Workers :
        \/ \E filename \in Filenames, contents \in Uploads :
              Receive(w, filename, contents)
        \/ Open(w)
        \/ Write(w)
        \/ Exists(w)
        \/ GetSize(w)
        \/ Load(w)
        \/ FinallyExists(w)
        \/ Remove(w)
        \/ Query(w)

SpecAudio == InitAudio /\ [][NextAudio]_vars

\* ------------------------------------------------- claims on the contours
Returned(k) == kind = k /\ pc = "returned"

Max(S) == CHOOSE x \in S : \A y \in S : y <= x

\* c is the contour of p, symbol by symbol
Pointwise(p, c) ==
    /\ Len(c) = Len(p)
    /\ c[1] = "*"
    /\ \A i \in 2..Len(p) :
          /\ p[i] > p[i - 1] => c[i] = "U"
          /\ p[i] < p[i - 1] => c[i] = "D"
          /\ p[i] = p[i - 1] => c[i] = "R"

Integral(p) == \A i \in 1..Len(p) : p[i] % Semitone = 0

\* the elements of s at the indices in K, in index order
Restrict(s, K) ==
    [j \in 1..Cardinality(K) |->
        s[CHOOSE i \in K : Cardinality({k \in K : k < i}) = j - 1]]

\* C1: for integral pitches p with n >= 2 observations the encoder (both
\* notes_to_contour and the inline one of midi_to_contour) returns c of
\* length n with c[0] = '*' and c[i] = U/D/R as p[i] >, <, = p[i-1];
\* [60,62,64,63] gives "*UUD"; strictly increasing gives only U, strictly
\* decreasing only D.
C1_ContourEncoding ==
    /\ (Returned("notes") /\ Len(notesArg) >= 2 /\ Integral(notesArg)) =>
          /\ Pointwise(notesArg, ret)
          /\ (\A i \in 2..Len(notesArg) : notesArg[i] > notesArg[i - 1]) =>
                (\A i \in 2..Len(ret) : ret[i] = "U")
          /\ (\A i \in 2..Len(notesArg) : notesArg[i] < notesArg[i - 1]) =>
                (\A i \in 2..Len(ret) : ret[i] = "D")
          /\ notesArg = ScenarioA => ret = <<"*", "U", "U", "D">>
    /\ (Returned("midi") /\ Len(notes) >= 2) => Pointwise(notes, ret)

C1_Witness ==
    Returned("notes") /\ notesArg = ScenarioA /\ ret = <<"*", "U", "U", "D">>

\* C6: fewer than 2 observations yield None (never "" and never "*"), in
\* notes_to_contour, in midi_to_contour after the velocity filter, and in
\* audio_to_contour after segmentation.
C6_ShortSequenceNone ==
    pc = "returned" =>
        /\ ret # <<>> /\ ret # <<"*">>
        /\ (kind = "notes" /\ Len(notesArg) < 2) => ret = None
        /\ (kind = "midi" /\ Len(mid) > 0 /\
            Cardinality({i \in DOMAIN mid[melody_track] :
                            /\ mid[melody_track][i].type = "note_on"
                            /\ mid[melody_track][i].velocity > 0}) < 2)
              => ret = None
        /\ (kind = "audio" /\ Len(notes) < 2) => ret = None

C6_Witness ==
    Returned("audio") /\ Len(pitches) >= 3 /\ Len(notes) = 1 /\ ret = None

\* C7: the first voiced frame is kept, and a later frame is kept iff it
\* differs from the last kept observation by more than 0.5 semitone; kept
\* observations are in frame order and consecutive ones differ by more than
\* 0.5; frames [60.0, 60.2, 64.0, 63.9, 63.8] give [60.0, 64.0] and "*U".
KeptRule(K, n) ==
    \A i \in 1..n :
        i \in K <=>
            /\ pitches[i] > 0
            /\ LET before == {k \in K : k < i}
               IN  \/ before = {}
                   \/ Abs(pitches[i] - pitches[Max(before)]) > Threshold

C7_Segmentation ==
    kind = "audio" =>
        /\ \E K \in SUBSET (1..t) :
              KeptRule(K, t) /\ notes = Restrict(pitches, K)
        /\ \A i \in 2..Len(notes) : Abs(notes[i] - notes[i - 1]) > Threshold
        /\ (pitches = ScenarioC /\ pc = "returned") =>
              notes = <<600, 640>> /\ ret = <<"*", "U">>

\* a drifting stream: each frame within 0.5 of the one before, the third
\* more than 0.5 from the last kept
C7_Witness ==
    Returned("audio") /\ pitches = <<600, 603, 606>> /\ notes = <<600, 606>>

\* C8: for fractional pitches, |p[i] - p[i-1]| <= 0.5 gives c[i] = 'R'.
C8_ToleranceEquality ==
    (Returned("notes") /\ Len(notesArg) >= 2) =>
        \A i \in 2..Len(notesArg) :
            Abs(notesArg[i] - notesArg[i - 1]) <= Threshold => ret[i] = "R"

\* C9: the melody track is the first track with the greatest count of
\* note_on events (of any velocity); the pitch sequence is the pitches of
\* its note_on events with velocity > 0, in event order.
NoteOns(track) == {i \in DOMAIN track : track[i].type = "note_on"}

C9_MelodyTrack ==
    (Returned("midi") /\ Len(mid) >= 1) =>
        /\ melody_track \in 1..Len(mid)
        /\ \A j \in 1..Len(mid) :
              Cardinality(NoteOns(mid[j])) <= Cardinality(NoteOns(mid[melody_track]))
        /\ \A j \in 1..(melody_track - 1) :
              Cardinality(NoteOns(mid[j])) < Cardinality(NoteOns(mid[melody_track]))
        /\ LET track == mid[melody_track]
               sounding == {i \in NoteOns(track) : track[i].velocity > 0}
           IN  notes = [j \in 1..Cardinality(sounding) |->
                           Restrict(track, sounding)[j].note]

\* a tie between two tracks, the first made of zero-velocity note_on events
C9_Witness ==
    /\ Returned("midi") /\ Len(mid) = 2 /\ melody_track = 1
    /\ Cardinality(NoteOns(mid[1])) = 2 /\ Cardinality(NoteOns(mid[2])) = 2
    /\ \E i \in DOMAIN mid[1] : mid[1][i] = note_on(64, 0)
    /\ Len(notes) = 1

\* C10: a contour of audio_to_contour is '*' followed by U and D only, and
\* equals the encoding with a 0.5-semitone equality tolerance.
TolerantContour(p) ==
    [i \in 1..Len(p) |->
        IF i = 1 THEN "*"
        ELSE IF Abs(p[i] - p[i - 1]) <= Threshold THEN "R"
        ELSE IF p[i] > p[i - 1] THEN "U" ELSE "D"]

C10_NoRepeatInAudio ==
    (Returned("audio") /\ ret # None) =>
        /\ ret[1] = "*"
        /\ \A i \in 2..Len(ret) : ret[i] \in {"U", "D"}
        /\ ret = TolerantContour(notes)

C10_Witness ==
    /\ Returned("audio") /\ ret = <<"*", "U", "D">>
    /\ \E i \in 2..Len(pitches) : pitches[i] = pitches[i - 1] /\ pitches[i] > 0

\* ------------------------------------------------- the search endpoints
Init == ContourIdle /\ SearchIdle /\ AudioIdle

Next ==
    \/ PopulateClear
    \/ \E d \in SourceDirs : PopulateDir(d)
    \/ \E query \in SeqsUpTo(QueryChars, MaxQuery) : SearchByParsons(query)
    \/ \E filename \in Filenames, contents \in Uploads :
          SearchByAudio(filename, contents)
    \/ Return

Spec == Init /\ [][Next]_vars

\* ------------------------------------------------- claims on the search
SameLetter(a, b) ==
    a = b \/ {a, b} \in {{"U", "u"}, {"D", "d"}, {"R", "r"}, {"Z", "z"}}

\* q occurs in text as a contiguous substring, letters in either case
ContainsCI(text, q) ==
    \E s \in 0..(Len(text) - Len(q)) :
        \A k \in 1..Len(q) : SameLetter(text[s + k], q[k])

Matching(coll, q) ==
    {i \in 1..Len(coll) : ContainsCI(coll[i].melodic_contour, q)}

\* results are the first `limit` documents of coll containing q, in order
FirstMatches(coll, q, limit, results) ==
    LET M == Matching(coll, q)
    IN  /\ Len(results) = Min(limit, Cardinality(M))
        /\ \A k \in 1..Len(results) :
              \E i \in M :
                  /\ Cardinality({j \in M : j < i}) = k - 1
                  /\ results[k] = [_id |-> ToString(coll[i]._id),
                                   melodic_contour |-> coll[i].melodic_contour]

InAlphabet(c) == c \in {"*", "U", "D", "R", "u", "d", "r"}

Malformed(q) == q = <<>> \/ \E k \in 1..Len(q) : ~InAlphabet(q[k])

\* C5 as claimed: search_by_parsons with the empty string, or with a
\* character outside {*, U, D, R}, is not rejected and returns no result.
C5_MalformedYieldsNothing ==
    (response.endpoint = "parsons" /\ Malformed(response.query)) =>
        response.status = "ok" /\ response.results = <<>>

\* C5, amended: no query is rejected; a query with a character outside the
\* alphabet returns no result; the empty string is contained in every
\* contour and returns the first 20 entries of the corpus.
C5_MalformedAccepted ==
    response.endpoint = "parsons" =>
        /\ response.status = "ok"
        /\ (\E k \in 1..Len(response.query) : ~InAlphabet(response.query[k]))
              => response.results = <<>>
        /\ response.query = <<>> =>
              /\ Len(response.results) = Min(20, Len(collection_compositions))
              /\ \A k \in 1..Len(response.results) :
                    response.results[k]._id = ToString(k)

C5_Witness ==
    /\ response.endpoint = "parsons" /\ response.query = <<>>
    /\ Len(collection_compositions) > 20
    /\ Len(response.results) = 20

\* --------------------------------------- claims on search_by_audio calls
Finished(w) == at[w] \in {"returned", "raised"}

\* C3: under every interleaving of the steps of concurrent search_by_audio
\* calls, also ones whose uploads have the same filename, each call returns
\* what it returns when run alone on its own upload against the same
\* corpus, and none fails because of another call's steps.
C3_CallsIndependent ==
    \A w \in Workers :
        Finished(w) =>
            resp[w] = search_by_audio(req[w].filename, req[w].contents,
                                      collection_compositions)

\* extraction fails: the upload is empty or undecodable, or fewer than two
\* observations are segmented
ExtractionFails(contents) ==
    \/ contents.size = 0
    \/ ~contents.decodes
    \/ Len(segment(contents.frames, 1, <<>>)) < 2

\* C4: an audio query never surfaces an error: when extraction fails the
\* response is {generated_contour: null, results: []}, and no failure in
\* saving, decoding, segmenting or removing the temporary file leaves
\* search_by_audio as an exception.
C4_NoErrorSurfaces ==
    \A w \in Workers :
        /\ at[w] # "raised"
        /\ (at[w] = "returned" /\ ExtractionFails(req[w].contents)) =>
              resp[w] = NoMelody

====
